---- MODULE Spec2Model ----
(***************************************************************************)
(* Model of src/index.ts: the Slack message handler, the /analyze slash    *)
(* command, postThreadOrChannel, the Tencent OCR retry loop, the           *)
(* attachment download and the two language-model calls.                   *)
(*                                                                         *)
(* One handler invocation is modelled at a time.  Every await of the code  *)
(* is two steps: Issue (the call is made and logged in `calls`) and one    *)
(* resolution action that picks the call's outcome and runs the code up to *)
(* the next await.                                                         *)
(***************************************************************************)
EXTENDS Integers, Sequences, FiniteSets, TLC

(* ------------------------------ bounds --------------------------------- *)

\* Longest attachment list of an event.
MaxFiles == 2

(* ------------------------- program constants --------------------------- *)

MAX == 3500

maxAttempts == 4

\* undefined / missing property
Absent == "<undefined>"

(* ------------------------------- texts --------------------------------- *)
(* A string is a sequence of segments [s, off, n]: the n characters at     *)
(* offset off of the string named s.  A literal of the source is one       *)
(* segment named by its own text; SPACES names a run of whitespace and any *)
(* other name a run of non-whitespace characters.                          *)

SPACES == "<spaces>"

Lit(s, n) == IF n = 0 THEN <<>> ELSE <<[s |-> s, off |-> 0, n |-> n]>>

RECURSIVE TLen(_)
TLen(t) == IF t = <<>> THEN 0 ELSE Head(t).n + TLen(Tail(t))

\* String.prototype.slice(0, k)
RECURSIVE Slice(_, _)
Slice(t, k) ==
  IF k <= 0 \/ t = <<>> THEN <<>>
  ELSE IF Head(t).n <= k THEN <<Head(t)>> \o Slice(Tail(t), k - Head(t).n)
  ELSE <<[Head(t) EXCEPT !.n = k]>>

\* String.prototype.includes(w) for a literal w of n characters
Includes(t, w, n) == \E i \in 1..Len(t) : t[i] = [s |-> w, off |-> 0, n |-> n]

\* x.trim().length > 0
TrimNonEmpty(t) == \E i \in 1..Len(t) : t[i].s # SPACES /\ t[i].n > 0

\* Array.prototype.join("\n")
RECURSIVE JoinNl(_)
JoinNl(ts) ==
  IF ts = <<>> THEN <<>>
  ELSE IF Len(ts) = 1 THEN ts[1]
  ELSE ts[1] \o Lit("\\n", 1) \o JoinNl(Tail(ts))

(* --------------------------- short strings ----------------------------- *)
(* The event text and the command text are sequences of characters.        *)

IsSpace(c) == c \in {" ", "\n"}

\* e.text.includes("<@")
IncludesMention(cs) == \E i \in 1..(Len(cs) - 1) : cs[i] = "<" /\ cs[i + 1] = "@"

\* Position of the ">" that closes a match of /<@[^>]+>/ starting at i, or 0.
MentionEnd(cs, i) ==
  IF i + 1 <= Len(cs) /\ cs[i] = "<" /\ cs[i + 1] = "@"
  THEN LET closers == {j \in (i + 2)..Len(cs) : cs[j] = ">"}
       IN IF closers = {} THEN 0
          ELSE LET j == CHOOSE x \in closers : \A y \in closers : x <= y
               IN IF j >= i + 3 THEN j ELSE 0
  ELSE 0

\* StripFrom without the g flag: only the first match is removed
RECURSIVE StripFirstFrom(_, _)
StripFirstFrom(cs, i) ==
  IF i > Len(cs) THEN <<>>
  ELSE IF MentionEnd(cs, i) > 0 THEN SubSeq(cs, MentionEnd(cs, i) + 1, Len(cs))
  ELSE <<cs[i]>> \o StripFirstFrom(cs, i + 1)

\* e.text.replace(/<@[^>]+>/g, "")
RECURSIVE StripFrom(_, _)
StripFrom(cs, i) ==
  IF i > Len(cs) THEN <<>>
  ELSE IF MentionEnd(cs, i) > 0 THEN StripFrom(cs, MentionEnd(cs, i) + 1)
  ELSE <<cs[i]>> \o StripFrom(cs, i + 1)

StripMentions(cs) == StripFrom(cs, 1)

RECURSIVE TrimLeft(_)
TrimLeft(cs) == IF cs # <<>> /\ IsSpace(Head(cs)) THEN TrimLeft(Tail(cs)) ELSE cs

RECURSIVE TrimRight(_)
TrimRight(cs) ==
  IF cs # <<>> /\ IsSpace(cs[Len(cs)]) THEN TrimRight(SubSeq(cs, 1, Len(cs) - 1)) ELSE cs

\* String.prototype.trim()
Trim(cs) == TrimRight(TrimLeft(cs))

(* ------------------------------- errors -------------------------------- *)
(* A thrown value: isError (instanceof Error), data (err.data.error, or    *)
(* Absent) and message.                                                    *)

Err(msg) == [isError |-> TRUE, data |-> Absent, message |-> msg]

SlackApiErr(code, n) ==
  [isError |-> TRUE, data |-> code,
   message |-> Lit("An API error occurred: ", 23) \o Lit(code, n)]

\* err instanceof Error ? err.message : String(err)
ErrText(err) == IF err.isError THEN err.message ELSE Lit("[object Object]", 15)

\* String(err?.message || "")
MsgOf(err) == err.message

isRetryableNetworkError(err) ==
  \/ Includes(MsgOf(err), "EAI_AGAIN", 9)
  \/ Includes(MsgOf(err), "ENOTFOUND", 9)
  \/ Includes(MsgOf(err), "ETIMEDOUT", 9)
  \/ Includes(MsgOf(err), "ECONNRESET", 10)
  \/ Includes(MsgOf(err), "socket hang up", 14)

\* ShouldRetry that retries every error while attempts remain
ShouldRetryAnyError(attempt, err) == attempt < maxAttempts

\* ShouldRetry without the bound on the attempts
ShouldRetryUnbounded(attempt, err) == isRetryableNetworkError(err)

\* attempt < maxAttempts && isRetryableNetworkError(err)
ShouldRetry(attempt, err) == attempt < maxAttempts /\ isRetryableNetworkError(err)

\* Backoff growing linearly
BackoffLinear(attempt) == 300 * attempt

\* 300 * Math.pow(2, attempt - 1)
Backoff(attempt) == 300 * 2 ^ (attempt - 1)

\* new Error(`OCR Failed: ${...}`)
OcrFailed(err) == Err(Lit("OCR Failed: ", 12) \o ErrText(err))

\* DownloadFailed without the status in the message
DownloadFailedNoStatus(status) == Err(Lit("Failed to download file", 23))

\* new Error(`Failed to download file: ${res.status}`)
DownloadFailed(status) == Err(Lit("Failed to download file: ", 25) \o Lit(status, 3))

\* slackErr === "cannot_reply_to_message", where
\* slackErr = err?.data?.error || err?.message || String(err)
IsThreadRejection(err) ==
  IF err.data # Absent /\ err.data # "" THEN err.data = "cannot_reply_to_message"
  ELSE IF err.message # <<>> THEN err.message = Lit("cannot_reply_to_message", 23)
  ELSE FALSE

\* ShouldFallback that falls back on every rejection of a thread post
ShouldFallbackAnyError(err, args) == args.thread_ts # Absent /\ args.thread_ts # ""

\* slackErr === "cannot_reply_to_message" && args.thread_ts
ShouldFallback(err, args) ==
  IsThreadRejection(err) /\ args.thread_ts # Absent /\ args.thread_ts # ""

(* ----------------------------- OCR result ------------------------------ *)
(* A provider response: dets is Absent or a sequence of detections         *)
(* [has, text]; has = FALSE is a detection without DetectedText.           *)

\* (result.TextDetections || [])
DetsOf(resp) == IF resp.hasDets THEN resp.dets ELSE <<>>

\* KeepNonBlank without the trim: .filter((x) => x && x.length > 0)
RECURSIVE KeepNonEmpty(_)
KeepNonEmpty(ds) ==
  IF ds = <<>> THEN <<>>
  ELSE IF Head(ds).has /\ Head(ds).text # <<>>
       THEN <<Head(ds).text>> \o KeepNonEmpty(Tail(ds))
       ELSE KeepNonEmpty(Tail(ds))

\* .filter((x) => x && x.trim().length > 0)
RECURSIVE KeepNonBlank(_)
KeepNonBlank(ds) ==
  IF ds = <<>> THEN <<>>
  ELSE IF Head(ds).has /\ Head(ds).text # <<>> /\ TrimNonEmpty(Head(ds).text)
       THEN <<Head(ds).text>> \o KeepNonBlank(Tail(ds))
       ELSE KeepNonBlank(Tail(ds))

\* dets.map(...).filter(...).join("\n")
OcrText(resp) == JoinNl(KeepNonBlank(DetsOf(resp)))

(* --------------------------- language model ---------------------------- *)
(* An outcome of the request: transport (fetch resolved), ok (res.ok),     *)
(* body ("unparsable", "null" or "object"), hasError (data.error truthy)   *)
(* and content (choices[0].message.content, <<>> when absent or empty).    *)

\* LlmThrows without the res.ok check
LlmThrowsIgnoreStatus(o) ==
  \/ ~o.transport
  \/ o.body = "null"
  \/ (o.body = "object" /\ o.hasError)

\* TRUE when the try block of callLLMToAnalyze / callLLMToChat throws
LlmThrows(o) ==
  \/ ~o.transport
  \/ o.body = "null"
  \/ ~o.ok
  \/ (o.body = "object" /\ o.hasError)

AnalyzeFallback(ocrText) == Lit("AI Analysis Failed. Raw Text:\\n", 37) \o ocrText

AnalyzeDefault == Lit("AI could not analyze the text.", 37)

ChatFallback == Lit("AI reply failed. Please try again.", 41)

ChatDefault == Lit("I could not generate a reply.", 36)

ContentOf(o) == IF o.body = "object" THEN o.content ELSE <<>>

callLLMToAnalyze(ocrText, o) ==
  IF LlmThrows(o) THEN AnalyzeFallback(ocrText)
  ELSE IF ContentOf(o) # <<>> THEN ContentOf(o) ELSE AnalyzeDefault

callLLMToChat(o) ==
  IF LlmThrows(o) THEN ChatFallback
  ELSE IF ContentOf(o) # <<>> THEN ContentOf(o) ELSE ChatDefault

\* Truncate with >= in place of >
TruncateFromMax(t) == IF TLen(t) >= MAX THEN Slice(t, MAX) \o Lit("...(truncated)", 14) ELSE t

\* t.length > MAX ? `${t.slice(0, MAX)}...(truncated)` : t
Truncate(t) == IF TLen(t) > MAX THEN Slice(t, MAX) \o Lit("...(truncated)", 14) ELSE t

\* `Error: ${err instanceof Error ? err.message : String(err)}`
ErrorMessage(err) == Lit("Error: ", 11) \o ErrText(err)


(* ------------------------- event classification ------------------------ *)

Truthy(x) == x # Absent /\ x # ""

\* Ignored without the bot_id check
IgnoredNoBotCheck(e) == Truthy(e.subtype) \/ ~Truthy(e.user)

\* the three ignore checks of the message handler
Ignored(e) == Truthy(e.subtype) \/ ~Truthy(e.user) \/ Truthy(e.bot_id)

\* ThreadTsOf without the thread_ts operand: always the event's own ts
ThreadTsOwnTs(e) == e.ts

\* e.thread_ts ?? e.ts
ThreadTsOf(e) == IF e.thread_ts # Absent THEN e.thread_ts ELSE e.ts

\* Array.isArray(e.files) ? e.files : []
FilesOf(e) == IF e.files.isArray THEN e.files.items ELSE <<>>

\* typeof f?.mimetype === "string" && f.mimetype.startsWith("image/")
IsImage(f) == f.mimetype.str /\ f.mimetype.toks # <<>> /\ f.mimetype.toks[1] = "image/"

\* files.find(...): the index of the first image file, 0 when there is none
FindImage(fs) ==
  LET hits == {i \in 1..Len(fs) : IsImage(fs[i])}
  IN IF hits = {} THEN 0 ELSE CHOOSE i \in hits : \A j \in hits : i <= j

\* imageFile?.url_private_download
TakesImagePipeline(e) ==
  FindImage(FilesOf(e)) # 0 /\ Truthy(FilesOf(e)[FindImage(FilesOf(e))].url)

\* typeof e.text === "string" && e.text.includes("<@")
HasMention(e) == e.text.str /\ IncludesMention(e.text.cs)

\* e.text.replace(/<@[^>]+>/g, "").trim()
CleanedText(e) == Trim(StripMentions(e.text.cs))

\* (command.text || "").trim()
CommandText(c) == IF c.text.str THEN Trim(c.text.cs) ELSE <<>>

(* ------------------------------- inputs -------------------------------- *)

Mime(major, minor) == [str |-> TRUE, toks |-> <<major, minor>>]

FileSamples ==
  { [id |-> "F1", mimetype |-> Mime("image/", "png"), url |-> "https://files/F1"],
    [id |-> "F2", mimetype |-> Mime("image/", "jpeg"), url |-> Absent],
    [id |-> "F3", mimetype |-> Mime("application/", "pdf"), url |-> "https://files/F3"] }

FileLists ==
  {[isArray |-> FALSE, items |-> <<>>]} \cup
  {[isArray |-> TRUE, items |-> fs] :
     fs \in UNION {[1..n -> FileSamples] : n \in 0..MaxFiles}}

Str(cs) == [str |-> TRUE, cs |-> cs]

\* "<@U123> what's the weather"
WeatherText ==
  <<"<", "@", "U", "1", "2", "3", ">", " ", "w", "h", "a", "t", "'", "s", " ",
    "t", "h", "e", " ", "w", "e", "a", "t", "h", "e", "r">>

TextSamples ==
  { [str |-> FALSE, cs |-> <<>>],
    Str(<<"h", "i">>),
    Str(<<" ", "<", "@", "U", "1", ">", " ">>),
    Str(<<"<", "@", ">", "x">>),
    Str(<<"<", "@", "U", "1", ">", " ", "h", "i", " ", "<", "@", "U", "2", ">", " ">>),
    Str(WeatherText) }

Events ==
  [type : {"message"}, subtype : {Absent, "bot_message"}, user : {Absent, "U1"},
   bot_id : {Absent, "B1"}, channel : {"C1"}, ts : {"100.1"},
   thread_ts : {Absent, "90.0"}, text : TextSamples, files : FileLists]

Commands ==
  [type : {"slash"}, text : {[str |-> FALSE, cs |-> <<>>], Str(<<" ">>), Str(<<" ", "h", "i">>)}]

\* rejections of chat.postMessage
PostErrors ==
  { SlackApiErr("cannot_reply_to_message", 23),
    SlackApiErr("channel_not_found", 17) }

RespondErrors == { Err(Lit("respond failed", 14)) }

\* outcomes of the attachment download: fetch rejects, or resolves with a status
DownloadOutcomes ==
  { [transport |-> FALSE, ok |-> FALSE, status |-> "000"],
    [transport |-> TRUE, ok |-> TRUE, status |-> "200"],
    [transport |-> TRUE, ok |-> FALSE, status |-> "404"] }

\* errors thrown by ocrClient.GeneralAccurateOCR
OcrErrors ==
  { Err(Lit("getaddrinfo ", 12) \o Lit("EAI_AGAIN", 9)),
    Err(Lit("getaddrinfo ", 12) \o Lit("ENOTFOUND", 9)),
    Err(Lit("connect ", 8) \o Lit("ETIMEDOUT", 9)),
    Err(Lit("read ", 5) \o Lit("ECONNRESET", 10)),
    Err(Lit("socket hang up", 14)),
    Err(Lit("connect ", 8) \o Lit("ECONNREFUSED", 12)),
    Err(Lit("AuthFailure.SignatureFailure", 28)) }

Det(t) == [has |-> TRUE, text |-> t]

\* responses of ocrClient.GeneralAccurateOCR
OcrResponses ==
  { [hasDets |-> FALSE, dets |-> <<>>],
    [hasDets |-> TRUE, dets |-> <<>>],
    [hasDets |-> TRUE, dets |-> <<Det(Lit(SPACES, 2)), Det(<<>>), [has |-> FALSE, text |-> <<>>]>>],
    [hasDets |-> TRUE,
     dets |-> <<Det(Lit("TOTAL 12.00", 11) \o Lit(SPACES, 1)), Det(Lit(SPACES, 1)),
                [has |-> FALSE, text |-> <<>>], Det(Lit("STORE A", 7))>>],
    [hasDets |-> TRUE, dets |-> <<Det(Lit("long receipt", MAX))>>] }

\* outcomes of the language-model request
LlmOutcomes ==
  { [transport |-> FALSE, ok |-> FALSE, body |-> "unparsable", hasError |-> FALSE, content |-> <<>>],
    [transport |-> TRUE, ok |-> FALSE, body |-> "object", hasError |-> TRUE, content |-> <<>>],
    [transport |-> TRUE, ok |-> FALSE, body |-> "unparsable", hasError |-> FALSE, content |-> <<>>],
    [transport |-> TRUE, ok |-> TRUE, body |-> "object", hasError |-> TRUE, content |-> <<>>],
    [transport |-> TRUE, ok |-> TRUE, body |-> "unparsable", hasError |-> FALSE, content |-> <<>>],
    [transport |-> TRUE, ok |-> TRUE, body |-> "null", hasError |-> FALSE, content |-> <<>>] }
  \cup
  { [transport |-> TRUE, ok |-> TRUE, body |-> "object", hasError |-> FALSE, content |-> c] :
      c \in {<<>>, Lit("summary", 7), Lit("summary", MAX), Lit("summary", MAX + 1)} }


(* ------------------------------- state --------------------------------- *)

VARIABLES
  req,        \* the event or command being handled
  route,      \* the branch the message handler took
  pc,         \* the await the handler is at
  site,       \* which postThreadOrChannel / respond call of the handler is running
  args,       \* the args of the running postThreadOrChannel / respond call
  pending,    \* TRUE while the call at pc is in flight
  perr,       \* the error last caught by postThreadOrChannel's catch block
  nposts,     \* chat.postMessage calls made by the running postThreadOrChannel call
  threadTs,   \* const threadTs
  imageFile,  \* const imageFile
  userText,   \* cleanedText (message handler) / text (slash command)
  dlOut,      \* const res of fetchSlackFileAsBase64
  ocrResp,    \* const result of ocrClient.GeneralAccurateOCR
  ocrText,    \* const ocrRawText
  attempt,    \* the loop counter of callTencentOCRWithSDK
  err,        \* the error caught in callTencentOCRWithSDK
  caught,     \* the error caught by the handler's own catch block
  llmOut,     \* the outcome of the language-model request
  llmText,    \* structuredResult / reply: the text the language-model call returned
  calls,      \* every downstream call made, in order
  delivered,  \* the sites whose postThreadOrChannel call returned, in order
  outcome,    \* "running", "returned" or "rejected"
  rejection   \* the error the handler rejected with

vars ==
  <<req, route, pc, site, args, pending, perr, nposts, threadTs, imageFile, userText, dlOut,
    ocrResp, ocrText, attempt, err, caught, llmOut, llmText, calls, delivered, outcome,
    rejection>>

NoReq == [type |-> "none"]

NoErr == [isError |-> FALSE, data |-> Absent, message |-> <<>>]

NoArgs == [channel |-> Absent, thread_ts |-> Absent, text |-> <<>>]

NoFile == [id |-> Absent, mimetype |-> [str |-> FALSE, toks |-> <<>>], url |-> Absent]

NoDl == [transport |-> FALSE, ok |-> FALSE, status |-> "none"]

NoOcr == [hasDets |-> FALSE, dets |-> <<"none">>]

NoLlm == [transport |-> FALSE, ok |-> FALSE, body |-> "none", hasError |-> FALSE, content |-> <<>>]

Init ==
  /\ req = NoReq
  /\ route = "none"
  /\ pc = "idle"
  /\ site = "none"
  /\ args = NoArgs
  /\ pending = FALSE
  /\ perr = NoErr
  /\ nposts = 0
  /\ threadTs = Absent
  /\ imageFile = NoFile
  /\ userText = <<>>
  /\ dlOut = NoDl
  /\ ocrResp = NoOcr
  /\ ocrText = <<>>
  /\ attempt = 0
  /\ err = NoErr
  /\ caught = NoErr
  /\ llmOut = NoLlm
  /\ llmText = <<>>
  /\ calls = <<>>
  /\ delivered = <<>>
  /\ outcome = "running"
  /\ rejection = NoErr

(* ---------------------------- control steps ---------------------------- *)

\* the handler reaches `await postThreadOrChannel(client, {channel, thread_ts, text}, ctx)`
StartPost(s, ch, ts, text) ==
  /\ pc' = "post"
  /\ site' = s
  /\ args' = [channel |-> ch, thread_ts |-> ts, text |-> text]
  /\ pending' = FALSE
  /\ nposts' = 0
  /\ UNCHANGED <<outcome, rejection>>

\* the handler reaches `await respond({response_type: "ephemeral", text})`
StartRespond(s, text) ==
  /\ pc' = "respond"
  /\ site' = s
  /\ args' = [channel |-> Absent, thread_ts |-> Absent, text |-> text]
  /\ pending' = FALSE
  /\ nposts' = 0
  /\ UNCHANGED <<outcome, rejection>>

\* the handler reaches the await of another call
Goto(p) ==
  /\ pc' = p
  /\ pending' = FALSE
  /\ nposts' = 0
  /\ UNCHANGED <<site, args, outcome, rejection>>

\* the handler returns
Return ==
  /\ pc' = "done"
  /\ pending' = FALSE
  /\ nposts' = 0
  /\ outcome' = "returned"
  /\ UNCHANGED <<site, args, rejection>>

\* an error no catch block of the handler covers: the handler's promise rejects
Reject(e) ==
  /\ pc' = "done"
  /\ pending' = FALSE
  /\ nposts' = 0
  /\ outcome' = "rejected"
  /\ rejection' = e
  /\ UNCHANGED <<site, args>>

\* catch (err) of the image branch: post the error message
ImgCatch(e) ==
  /\ caught' = e
  /\ StartPost("img_error", req.channel, threadTs, ErrorMessage(e))

\* catch (err) of the mention branch
ChatCatch(e) ==
  /\ caught' = e
  /\ StartPost("chat_error", req.channel, threadTs, ErrorMessage(e))

\* catch (err) of the slash command
SlashCatch(e) ==
  /\ caught' = e
  /\ StartRespond("slash_error", ErrorMessage(e))

CallPcs == {"post", "post_fb", "download", "ocr", "sleep", "analyze", "chat", "ack", "respond"}

\* the call made at pc
CallAt ==
  CASE pc = "post" ->
         [op |-> "post", channel |-> args.channel, thread_ts |-> args.thread_ts, text |-> args.text]
    [] pc = "post_fb" ->
         [op |-> "post", channel |-> args.channel, thread_ts |-> Absent, text |-> args.text]
    [] pc = "download" -> [op |-> "download", url |-> imageFile.url]
    [] pc = "ocr" -> [op |-> "ocr", attempt |-> attempt]
    [] pc = "sleep" -> [op |-> "sleep", ms |-> Backoff(attempt)]
    [] pc = "analyze" -> [op |-> "analyze", text |-> ocrText]
    [] pc = "chat" -> [op |-> "chat", text |-> userText]
    [] pc = "ack" -> [op |-> "ack"]
    [] pc = "respond" -> [op |-> "respond", text |-> args.text]

\* the handler makes the call it is waiting at
Issue ==
  /\ pc \in CallPcs
  /\ ~pending
  /\ pending' = TRUE
  /\ calls' = Append(calls, CallAt)
  /\ nposts' = IF pc \in {"post", "post_fb"} THEN nposts + 1 ELSE nposts
  /\ delivered' = delivered
  /\ UNCHANGED <<req, route, pc, site, args, perr, threadTs, imageFile, userText, dlOut,
                 ocrResp, ocrText, attempt, err, caught, llmOut, llmText, outcome, rejection>>

(* --------------------------- message handler --------------------------- *)

ProcessingMsg == Lit("Processing your image with OCR...", 38)

NoTextMsg == Lit("No text detected in the image.", 34)

HiMsg == Lit("Hi! Tell me what you need.", 26)

ThinkingMsg == Lit("Thinking...", 16)

UsageMsg == Lit("Send /analyze <text> or upload an image and mention me.", 57)

AnalyzingMsg == Lit("Analyzing your text...", 27)

\* app.event("message"): from the arrival of the event to the first await
ReceiveFrom(events) ==
  /\ pc = "idle"
  /\ \E e \in events :
       /\ req' = e
       /\ IF Ignored(e) THEN
            /\ route' = "ignore"
            /\ Return
            /\ UNCHANGED <<threadTs, imageFile, userText>>
          ELSE IF TakesImagePipeline(e) THEN
            /\ route' = "image"
            /\ threadTs' = ThreadTsOf(e)
            /\ imageFile' = FilesOf(e)[FindImage(FilesOf(e))]
            /\ StartPost("img_ack", e.channel, ThreadTsOf(e), ProcessingMsg)
            /\ UNCHANGED userText
          ELSE IF HasMention(e) THEN
            /\ route' = "mention"
            /\ threadTs' = ThreadTsOf(e)
            /\ userText' = CleanedText(e)
            /\ IF CleanedText(e) = <<>>
               THEN StartPost("greet", e.channel, ThreadTsOf(e), HiMsg)
               ELSE StartPost("think", e.channel, ThreadTsOf(e), ThinkingMsg)
            /\ UNCHANGED imageFile
          ELSE
            /\ route' = "noop"
            /\ threadTs' = ThreadTsOf(e)
            /\ Return
            /\ UNCHANGED <<imageFile, userText>>
  /\ UNCHANGED <<perr, dlOut, ocrResp, ocrText, attempt, err, caught, llmOut, llmText, calls,
                 delivered>>

Receive == ReceiveFrom(Events)

\* AfterPost without the `return` that follows the no-text notice
AfterPostNoReturn ==
  CASE site = "img_ack" -> Goto("download")
    [] site = "think" -> Goto("chat")
    [] site = "img_notext" -> Goto("analyze")
    [] OTHER -> Return

\* what follows a postThreadOrChannel call that returned
AfterPost ==
  CASE site = "img_ack" -> Goto("download")
    [] site = "think" -> Goto("chat")
    [] OTHER -> Return

\* what follows a postThreadOrChannel call that threw e
PostThrew(e) ==
  CASE site \in {"img_notext", "img_result"} -> ImgCatch(e)
    [] site = "chat_result" -> ChatCatch(e)
    [] OTHER -> Reject(e) /\ caught' = caught

\* client.chat.postMessage resolved (first post or channel fallback)
PostOk ==
  /\ pc \in {"post", "post_fb"}
  /\ pending
  /\ AfterPost
  /\ delivered' = Append(delivered, site)
  /\ UNCHANGED <<req, route, perr, threadTs, imageFile, userText, dlOut, ocrResp, ocrText,
                 attempt, err, caught, llmOut, llmText, calls>>

\* postThreadOrChannel: the first client.chat.postMessage rejected; the catch block
PostFail ==
  /\ pc = "post"
  /\ pending
  /\ \E e \in PostErrors :
       /\ perr' = e
       /\ IF ShouldFallback(e, args)
          THEN /\ pc' = "post_fb"
               /\ pending' = FALSE
               /\ UNCHANGED <<site, args, nposts, outcome, rejection, caught>>
          ELSE PostThrew(e)
  /\ UNCHANGED <<req, route, threadTs, imageFile, userText, dlOut, ocrResp, ocrText, attempt,
                 err, llmOut, llmText, calls, delivered>>

\* postThreadOrChannel: the channel fallback post rejected
PostFbFail ==
  /\ pc = "post_fb"
  /\ pending
  /\ \E e \in PostErrors : PostThrew(e)
  /\ UNCHANGED <<req, route, perr, threadTs, imageFile, userText, dlOut, ocrResp, ocrText,
                 attempt, err, llmOut, llmText, calls, delivered>>

\* fetchSlackFileAsBase64 settled
DownloadDone ==
  /\ pc = "download"
  /\ pending
  /\ \E o \in DownloadOutcomes :
       /\ dlOut' = o
       /\ IF o.transport /\ o.ok THEN
            /\ attempt' = 1
            /\ Goto("ocr")
            /\ caught' = caught
          ELSE
            /\ attempt' = attempt
            /\ ImgCatch(IF o.transport THEN DownloadFailed(o.status)
                                       ELSE Err(Lit("fetch failed", 12)))
  /\ UNCHANGED <<req, route, perr, threadTs, imageFile, userText, ocrResp, ocrText, err,
                 llmOut, llmText, calls, delivered>>

\* OcrOk without the `if (!ocrRawText)` check
OcrOkNoEmptyCheck ==
  /\ pc = "ocr"
  /\ pending
  /\ \E r \in OcrResponses :
       /\ ocrResp' = r
       /\ ocrText' = OcrText(r)
       /\ Goto("analyze")
  /\ UNCHANGED <<req, route, perr, threadTs, imageFile, userText, dlOut, attempt, err, caught,
                 llmOut, llmText, calls, delivered>>

\* callTencentOCRWithSDK: ocrClient.GeneralAccurateOCR resolved
OcrOk ==
  /\ pc = "ocr"
  /\ pending
  /\ \E r \in OcrResponses :
       /\ ocrResp' = r
       /\ ocrText' = OcrText(r)
       /\ IF OcrText(r) = <<>>
          THEN StartPost("img_notext", req.channel, threadTs, NoTextMsg)
          ELSE Goto("analyze")
  /\ UNCHANGED <<req, route, perr, threadTs, imageFile, userText, dlOut, attempt, err, caught,
                 llmOut, llmText, calls, delivered>>

\* callTencentOCRWithSDK: ocrClient.GeneralAccurateOCR rejected; the catch block
OcrFail ==
  /\ pc = "ocr"
  /\ pending
  /\ \E e \in OcrErrors :
       /\ err' = e
       /\ IF ShouldRetry(attempt, e)
          THEN Goto("sleep") /\ caught' = caught
          ELSE ImgCatch(OcrFailed(e))
  /\ UNCHANGED <<req, route, perr, threadTs, imageFile, userText, dlOut, ocrResp, ocrText,
                 attempt, llmOut, llmText, calls, delivered>>

\* SleepDone without attempt++: the loop never reaches maxAttempts
SleepDoneNoIncrement ==
  /\ pc = "sleep"
  /\ pending
  /\ err' = NoErr
  /\ Goto("ocr")
  /\ UNCHANGED <<req, route, perr, threadTs, imageFile, userText, dlOut, ocrResp, ocrText,
                 attempt, caught, llmOut, llmText, calls, delivered>>

\* callTencentOCRWithSDK: sleep(backoff) resolved; continue, attempt++
SleepDone ==
  /\ pc = "sleep"
  /\ pending
  /\ attempt' = attempt + 1
  /\ err' = NoErr
  /\ IF attempt + 1 <= maxAttempts
     THEN Goto("ocr") /\ ocrText' = ocrText
     ELSE ocrText' = <<>> /\ StartPost("img_notext", req.channel, threadTs, NoTextMsg)
  /\ UNCHANGED <<req, route, perr, threadTs, imageFile, userText, dlOut, ocrResp, caught,
                 llmOut, llmText, calls, delivered>>

\* callLLMToAnalyze settled; truncation
AnalyzeDone ==
  /\ pc = "analyze"
  /\ pending
  /\ \E o \in LlmOutcomes :
       /\ llmOut' = o
       /\ llmText' = callLLMToAnalyze(ocrText, o)
       /\ StartPost("img_result", req.channel, threadTs, Truncate(callLLMToAnalyze(ocrText, o)))
  /\ UNCHANGED <<req, route, perr, threadTs, imageFile, userText, dlOut, ocrResp, ocrText,
                 attempt, err, caught, calls, delivered>>

\* callLLMToChat settled; truncation (mention branch and slash command)
ChatDone ==
  /\ pc = "chat"
  /\ pending
  /\ \E o \in LlmOutcomes :
       /\ llmOut' = o
       /\ llmText' = callLLMToChat(o)
       /\ IF req.type = "message"
          THEN StartPost("chat_result", req.channel, threadTs, Truncate(callLLMToChat(o)))
          ELSE StartRespond("slash_result", Truncate(callLLMToChat(o)))
  /\ UNCHANGED <<req, route, perr, threadTs, imageFile, userText, dlOut, ocrResp, ocrText,
                 attempt, err, caught, calls, delivered>>

(* ---------------------------- slash command ---------------------------- *)

\* SlashReceive without `await ack()`: the handler starts with the text checks
SlashReceiveNoAck ==
  /\ pc = "idle"
  /\ \E c \in Commands :
       /\ req' = c
       /\ userText' = CommandText(c)
       /\ IF CommandText(c) = <<>>
          THEN StartRespond("slash_usage", UsageMsg)
          ELSE StartRespond("slash_analyzing", AnalyzingMsg)
  /\ route' = "slash"
  /\ UNCHANGED <<perr, threadTs, imageFile, dlOut, ocrResp, ocrText, attempt, err,
                 caught, llmOut, llmText, calls, delivered>>

\* app.command("/analyze"): up to `await ack()`
SlashReceive ==
  /\ pc = "idle"
  /\ \E c \in Commands : req' = c
  /\ route' = "slash"
  /\ Goto("ack")
  /\ UNCHANGED <<perr, threadTs, imageFile, userText, dlOut, ocrResp, ocrText, attempt, err,
                 caught, llmOut, llmText, calls, delivered>>

\* ack() settled
AckDone ==
  /\ pc = "ack"
  /\ pending
  /\ \/ /\ userText' = CommandText(req)
        /\ IF CommandText(req) = <<>>
           THEN StartRespond("slash_usage", UsageMsg)
           ELSE StartRespond("slash_analyzing", AnalyzingMsg)
     \/ /\ userText' = userText
        /\ Reject(Err(Lit("ack failed", 10)))
  /\ UNCHANGED <<req, route, perr, threadTs, imageFile, dlOut, ocrResp, ocrText, attempt, err,
                 caught, llmOut, llmText, calls, delivered>>

\* respond() resolved
RespondOk ==
  /\ pc = "respond"
  /\ pending
  /\ IF site = "slash_analyzing" THEN Goto("chat") ELSE Return
  /\ UNCHANGED <<req, route, perr, threadTs, imageFile, userText, dlOut, ocrResp, ocrText,
                 attempt, err, caught, llmOut, llmText, calls, delivered>>

\* respond() rejected
RespondFail ==
  /\ pc = "respond"
  /\ pending
  /\ \E e \in RespondErrors :
       IF site = "slash_result" THEN SlashCatch(e) ELSE Reject(e) /\ caught' = caught
  /\ UNCHANGED <<req, route, perr, threadTs, imageFile, userText, dlOut, ocrResp, ocrText,
                 attempt, err, llmOut, llmText, calls, delivered>>

Next ==
  \/ Receive
  \/ SlashReceive
  \/ Issue
  \/ PostOk
  \/ PostFail
  \/ PostFbFail
  \/ DownloadDone
  \/ OcrOk
  \/ OcrFail
  \/ SleepDone
  \/ AnalyzeDone
  \/ ChatDone
  \/ AckDone
  \/ RespondOk
  \/ RespondFail

Spec == Init /\ [][Next]_vars

(* ------------------------------- claims -------------------------------- *)

\* the attachment list of the event being handled
ReqFiles == IF req.type = "message" /\ req.files.isArray THEN req.files.items ELSE <<>>

\* the event being handled is one the handler ignores: subtype, no user, or bot_id
ReqIgnorable ==
  req.type = "message" /\ (Truthy(req.subtype) \/ ~Truthy(req.user) \/ Truthy(req.bot_id))

\* the event has, at some position, an image attachment with a download URL
ReqHasDownloadableImage ==
  \E i \in 1..Len(ReqFiles) :
    /\ ReqFiles[i].mimetype.str
    /\ ReqFiles[i].mimetype.toks[1] = "image/"
    /\ Truthy(ReqFiles[i].url)

LastCall == calls[Len(calls)]

\* the calls of the log with the given op
CallsOf(op) == SelectSeq(calls, LAMBDA c : c.op = op)

\* C1: the message handler never rejects back to the platform, whatever the
\* outcomes of the downstream calls it makes.
C1_HandlerNeverRejects == req.type = "message" => outcome # "rejected"

\* C2: a non-ignored event with an image attachment that has a download URL at
\* any position of the attachment list takes the image pipeline and never runs
\* the mention-chat pipeline.
C2_ImageAnywhereTakesImagePipeline ==
  (req.type = "message" /\ ~ReqIgnorable /\ ReqHasDownloadableImage)
    => (route = "image" /\ CallsOf("chat") = <<>>)

\* C3: every text handed to chat.postMessage or respond is at most 3500
\* characters long.
C3_DeliveredTextWithinCap ==
  \A i \in 1..Len(calls) :
    calls[i].op \in {"post", "respond"} => TLen(calls[i].text) <= 3500

\* C4: an event with a subtype, or without a user, or with a bot_id makes the
\* message handler return without any downstream call.
C4_IgnoredMakesNoCalls ==
  ReqIgnorable => (calls = <<>> /\ pc = "done" /\ outcome = "returned" /\ ~pending)

\* an ignored bot event that carries both a downloadable image and a mention
C4_Witness ==
  /\ req.type = "message"
  /\ Truthy(req.bot_id) /\ Truthy(req.user) /\ ~Truthy(req.subtype)
  /\ ReqHasDownloadableImage
  /\ HasMention(req)
  /\ pc = "done"

\* the handler is right after a postThreadOrChannel call that threw
PostJustThrew ==
  /\ calls # <<>>
  /\ LastCall.op = "post"
  /\ ~pending
  /\ nposts = 0
  /\ \/ pc = "done" /\ outcome = "rejected"
     \/ pc = "post" /\ site \in {"img_error", "chat_error"}

\* the error that came out of the last postThreadOrChannel call
PostThrown == IF outcome = "rejected" THEN rejection ELSE caught

\* C5: postThreadOrChannel makes a second post only after the first was
\* rejected with cannot_reply_to_message and a thread reference was given; that
\* post goes to the same channel with the same text and no thread reference;
\* any other rejection of the first post propagates unchanged without a second
\* post; one call never makes more than two posts.
C5_ThreadFallbackOnce ==
  /\ nposts \in 0..2
  /\ pc = "post_fb" =>
       /\ perr.data = "cannot_reply_to_message"
       /\ Truthy(args.thread_ts)
       /\ nposts = (IF pending THEN 2 ELSE 1)
  /\ nposts = 2 =>
       /\ pc = "post_fb"
       /\ calls[Len(calls) - 1].op = "post"
       /\ Truthy(calls[Len(calls) - 1].thread_ts)
       /\ LastCall = [op |-> "post", channel |-> calls[Len(calls) - 1].channel,
                      thread_ts |-> Absent, text |-> calls[Len(calls) - 1].text]
  /\ (PostJustThrew /\ Truthy(LastCall.thread_ts)) =>
       /\ perr.data # "cannot_reply_to_message"
       /\ PostThrown = perr
  /\ (PostJustThrew /\ ~Truthy(LastCall.thread_ts)) =>
       /\ perr.data = "cannot_reply_to_message"
       /\ calls[Len(calls) - 1].op = "post"
       /\ Truthy(calls[Len(calls) - 1].thread_ts)

\* the channel fallback post of the final result is in flight
C5_Witness ==
  /\ pc = "post_fb" /\ pending /\ nposts = 2
  /\ site = "img_result"
  /\ LastCall.thread_ts = Absent


\* the backoff delays the specification lists, in order
ListedDelays == <<300, 600, 1200>>

\* the error callTencentOCRWithSDK throws for the provider error in err
WrappedOcrError ==
  [isError |-> TRUE, data |-> Absent, message |-> Lit("OCR Failed: ", 12) \o err.message]

\* after the provider call of the current attempt only posts are made
NothingAfterLastAttemptButPosts ==
  \A i \in 1..Len(calls) :
    calls[i] = [op |-> "ocr", attempt |-> attempt] =>
      \A j \in (i + 1)..Len(calls) : calls[j].op = "post"

\* C6: each sleep lies between a failed provider call and the next one and
\* lasts 300, 600, 1200 ms for the 1st, 2nd, 3rd failure; when the provider
\* call succeeds after k failures, k+1 provider calls and k sleeps were made,
\* the success value is returned and the image pipeline goes on exactly as
\* without failures (analyze call, or the no-text notice for an empty text).
C6_RetryThenSuccess ==
  /\ \A i \in 1..Len(calls) :
       calls[i].op = "sleep" =>
         /\ i > 1
         /\ calls[i - 1].op = "ocr"
         /\ calls[i - 1].attempt \in 1..3
         /\ calls[i].ms = ListedDelays[calls[i - 1].attempt]
         /\ i < Len(calls) => calls[i + 1] = [op |-> "ocr", attempt |-> calls[i - 1].attempt + 1]
  /\ ocrResp # NoOcr =>
       /\ attempt \in 1..4
       /\ Len(CallsOf("ocr")) = attempt
       /\ Len(CallsOf("sleep")) = attempt - 1
       /\ \A i \in 1..(attempt - 1) : CallsOf("sleep")[i].ms = ListedDelays[i]
       /\ ocrText = OcrText(ocrResp)
       /\ err = NoErr
       /\ (LastCall.op = "ocr" /\ ocrText # <<>>) => (pc = "analyze" /\ ~pending /\ caught = NoErr)
       /\ (LastCall.op = "ocr" /\ ocrText = <<>>) =>
            (pc = "post" /\ site = "img_notext" /\ ~pending /\ caught = NoErr)

\* the result was delivered after three failed provider calls and a fourth that succeeded
C6_Witness ==
  /\ ocrResp # NoOcr
  /\ attempt = 4
  /\ Len(CallsOf("sleep")) = 3
  /\ Len(CallsOf("analyze")) = 1
  /\ site = "img_result"
  /\ outcome = "returned"

\* C7: after a provider error the retryability predicate rejects, on whichever
\* attempt, no further provider call and no sleep is made and the call throws
\* that error (under the OCR Failed marker) to the image branch.
C7_NonRetryableStopsAtOnce ==
  (err # NoErr /\ ~isRetryableNetworkError(err)) =>
    /\ pc \notin {"ocr", "sleep"}
    /\ Len(CallsOf("ocr")) = attempt
    /\ Len(CallsOf("sleep")) = attempt - 1
    /\ NothingAfterLastAttemptButPosts
    /\ caught = WrappedOcrError
    /\ ocrResp = NoOcr

\* a non-retryable error on the second attempt
C7_Witness ==
  /\ err # NoErr
  /\ ~isRetryableNetworkError(err)
  /\ attempt = 2
  /\ site = "img_error"
  /\ pending

\* C8: the attempt counter stays within 1..4 during the call, at most 4
\* provider calls and 3 sleeps are made, and a fourth failure is followed by no
\* sleep but by the OCR Failed error carrying the fourth error's message.
C8_AttemptsBounded ==
  /\ pc \in {"ocr", "sleep"} => attempt \in 1..4
  /\ attempt \in 0..4
  /\ Len(CallsOf("ocr")) <= 4
  /\ Len(CallsOf("sleep")) <= 3
  /\ (attempt = 4 /\ err # NoErr) =>
       /\ pc \notin {"ocr", "sleep"}
       /\ Len(CallsOf("ocr")) = 4
       /\ Len(CallsOf("sleep")) = 3
       /\ NothingAfterLastAttemptButPosts
       /\ caught = WrappedOcrError
       /\ ocrResp = NoOcr

\* four retryable failures in a row: the error message is being posted
C8_Witness ==
  /\ attempt = 4
  /\ err # NoErr
  /\ Includes(err.message, "socket hang up", 14)
  /\ site = "img_error"
  /\ pending

\* the error classes the specification calls transient network failures
ListedTransient(e) ==
  \E i \in 1..Len(e.message) :
    e.message[i].s \in {"ECONNREFUSED", "ECONNRESET", "EAI_AGAIN", "ENOTFOUND", "ETIMEDOUT",
                        "socket hang up"}

\* C9: a provider error is retried (while attempts remain) exactly when it is
\* connection refused, connection reset, DNS resolution failure, timeout or
\* socket hang up.
C9_TransientClassesRetried ==
  (err # NoErr /\ attempt < 4) => (pc = "sleep" <=> ListedTransient(err))

\* the language-model request has settled
LlmSettled == llmOut # NoLlm

\* the fallback text of the pipeline that is running
FallbackText ==
  IF route = "image"
  THEN Lit("AI Analysis Failed. Raw Text:\\n", 37) \o ocrText
  ELSE Lit("AI reply failed. Please try again.", 41)

\* the fixed notice returned for a response without content
NoContentText ==
  IF route = "image"
  THEN Lit("AI could not analyze the text.", 37)
  ELSE Lit("I could not generate a reply.", 36)

\* the language-model call returned to its caller, which goes on to deliver the result
LlmReturnsToDelivery ==
  (calls # <<>> /\ LastCall.op \in {"analyze", "chat"} /\ ~pending) =>
    /\ LlmSettled
    /\ llmText # <<>>
    /\ caught = NoErr
    /\ outcome = "running"
    /\ pc \in {"post", "respond"}
    /\ site \in {"img_result", "chat_result", "slash_result"}
    /\ TLen(llmText) <= 3500 => args.text = llmText

\* C10 as stated: the language-model calls never throw, and on a non-success
\* status, an error field, an unparsable body or a transport exception they
\* return the fallback text (OCR text under the failure notice / the apology).
C10_FallbackOnEveryFailure ==
  /\ LlmReturnsToDelivery
  /\ (LlmSettled /\ (\/ ~llmOut.transport
                     \/ ~llmOut.ok
                     \/ (llmOut.body = "object" /\ llmOut.hasError)
                     \/ llmOut.body = "unparsable")) => llmText = FallbackText

\* C10 amended: the language-model calls never throw; on a non-success status,
\* an error field or a transport exception they return the fallback text; on
\* an unparsable body with a success status they return the fixed no-content
\* notice; either way the pipeline goes on to the normal delivery.
C10_FallbackOnFailure ==
  /\ LlmReturnsToDelivery
  /\ (LlmSettled /\ (\/ ~llmOut.transport
                     \/ ~llmOut.ok
                     \/ (llmOut.body = "object" /\ llmOut.hasError))) => llmText = FallbackText
  /\ (LlmSettled /\ llmOut.transport /\ llmOut.ok /\ llmOut.body = "unparsable") =>
       llmText = NoContentText

\* the analyze request failed in transport and the fallback text was delivered
C10_Witness ==
  /\ LlmSettled
  /\ ~llmOut.transport
  /\ route = "image"
  /\ site = "img_result"
  /\ llmText = FallbackText
  /\ outcome = "returned"
  /\ caught = NoErr

\* the thread target of the event being handled: thread_ts when present, else ts
EventTarget == IF req.thread_ts # Absent THEN req.thread_ts ELSE req.ts

\* a text that is the error message of some error
IsErrorText(t) == t # <<>> /\ t[1] = [s |-> "Error: ", off |-> 0, n |-> 11]

\* the first chat.postMessage of every error-message delivery call made
ErrorDeliveries ==
  SelectSeq(calls, LAMBDA c : c.op = "post" /\ IsErrorText(c.text) /\ c.thread_ts # Absent)

\* the positions of the log holding a call of the pipeline proper
PipelineCallsAt ==
  {i \in 1..Len(calls) : calls[i].op \in {"download", "ocr", "sleep", "analyze", "chat"}}

\* C11: once the message handler is over for an image or mention-chat event
\* during which a downstream call (download, OCR, LLM or delivery call, the
\* acknowledgment post included) raised an exception, it has made exactly one
\* error-message delivery call, addressed to the event's channel and thread
\* target, and no pipeline call after it.
C11_OneErrorMessagePerException ==
  (req.type = "message" /\ route \in {"image", "mention"} /\ pc = "done"
     /\ (caught # NoErr \/ rejection # NoErr))
    => /\ Len(ErrorDeliveries) = 1
       /\ ErrorDeliveries[1].channel = req.channel
       /\ ErrorDeliveries[1].thread_ts = EventTarget
       /\ \A i \in PipelineCallsAt :
            \E j \in i + 1..Len(calls) : calls[j] = ErrorDeliveries[1]

\* positions i..j of cs hold a mention marker: "<@", a user id, ">"
MarkerSpan(cs, i, j) ==
  /\ i + 3 <= j /\ j <= Len(cs)
  /\ cs[i] = "<" /\ cs[i + 1] = "@" /\ cs[j] = ">"
  /\ \A k \in (i + 2)..(j - 1) : cs[k] # ">"

ContainsMarker(cs) ==
  \E i \in 1..Len(cs) : cs[i] = "<" /\ \E j \in i..Len(cs) : MarkerSpan(cs, i, j)

\* the characters of cs from position k on that lie in no mention marker
RECURSIVE OutsideMarkers(_, _)
OutsideMarkers(cs, k) ==
  IF k > Len(cs) THEN <<>>
  ELSE IF \E i \in 1..k : cs[i] = "<" /\ \E j \in k..Len(cs) : MarkerSpan(cs, i, j)
       THEN OutsideMarkers(cs, k + 1)
       ELSE <<cs[k]>> \o OutsideMarkers(cs, k + 1)

\* u is r without its leading and trailing whitespace, and is not empty
IsTrimmed(u, r) ==
  \E a \in 1..Len(r) :
    /\ r[a] \notin {" ", "\n"}
    /\ \A k \in 1..(a - 1) : r[k] \in {" ", "\n"}
    /\ LET b == a + Len(u) - 1
       IN /\ b \in a..Len(r)
          /\ r[b] \notin {" ", "\n"}
          /\ \A k \in (b + 1)..Len(r) : r[k] \in {" ", "\n"}
          /\ u = SubSeq(r, a, b)

\* the texts an event can carry
EventTexts == {t.cs : t \in {x \in TextSamples : x.str}}

\* for every event text: whether it holds a marker, and what lies outside markers
MarkerIn == [cs \in EventTexts |-> ContainsMarker(cs)]

RestOf == [cs \in EventTexts |-> OutsideMarkers(cs, 1)]

\* the event handled mentions a user and has text left once the markers are removed
ReqMentionsWithText ==
  /\ req.type = "message" /\ ~ReqIgnorable /\ route # "image"
  /\ req.text.str /\ MarkerIn[req.text.cs]
  /\ \E k \in 1..Len(RestOf[req.text.cs]) : RestOf[req.text.cs][k] \notin {" ", "\n"}

\* C12: a non-ignored event that takes no image pipeline, whose text contains a
\* mention marker and is not empty once the markers are removed, takes the
\* mention-chat pipeline, and the text handed to the chat call is the event
\* text with every marker removed and the surrounding whitespace trimmed (so
\* it contains no marker); "<@U123> what's the weather" is passed as
\* "what's the weather".
C12_MentionStrippedFromChatText ==
  ReqMentionsWithText =>
    /\ route = "mention"
    /\ site # "greet"
    /\ IsTrimmed(userText, RestOf[req.text.cs])
    /\ ~ContainsMarker(userText)
    /\ \A i \in 1..Len(calls) : calls[i].op = "chat" => calls[i].text = userText
    /\ req.text.cs = WeatherText =>
         userText = <<"w", "h", "a", "t", "'", "s", " ", "t", "h", "e", " ",
                      "w", "e", "a", "t", "h", "e", "r">>

C12_Witness ==
  /\ ReqMentionsWithText
  /\ req.text.cs = WeatherText
  /\ pc = "chat" /\ pending
  /\ LastCall.op = "chat"

\* the position in the log of the language-model call, or 0
LlmCallAt ==
  IF \E i \in 1..Len(calls) : calls[i].op \in {"analyze", "chat"}
  THEN CHOOSE i \in 1..Len(calls) : calls[i].op \in {"analyze", "chat"}
  ELSE 0

\* the final-result text of the language-model text t
FinalOf(t) ==
  IF TLen(t) <= 3500 THEN t
  ELSE Slice(t, 3500) \o <<[s |-> "...(truncated)", off |-> 0, n |-> 14]>>

\* the positions of the log holding a delivery of the final result
ResultDeliveriesAt ==
  IF llmOut = NoLlm THEN {}
  ELSE LET k == LlmCallAt
       IN {i \in (k + 1)..Len(calls) :
             calls[i].op \in {"post", "respond"} /\ ~IsErrorText(calls[i].text)}

\* C13: on every path (image result, mention-chat reply, slash-command reply)
\* the final-result text is the language-model text when that has at most
\* 3500 characters, else its first 3500 characters followed by
\* "...(truncated)"; it is computed before the delivery call, and the thread
\* post and the channel fallback post carry the same text.
C13_FinalTextTruncatedOnce ==
  llmOut # NoLlm =>
    LET final == FinalOf(llmText)
    IN /\ site \in {"img_result", "chat_result", "slash_result"} => args.text = final
       /\ \A i \in ResultDeliveriesAt : calls[i].text = final

C13_Witness ==
  /\ site = "img_result" /\ pc = "post_fb" /\ pending
  /\ TLen(llmText) > 3500
  /\ Cardinality(ResultDeliveriesAt) = 2
  /\ calls[Len(calls)].thread_ts = Absent
  /\ calls[Len(calls)].text = calls[Len(calls) - 1].text

\* the detections of a provider response, <<>> without a list
RespDets(r) == IF r.hasDets THEN r.dets ELSE <<>>

\* the positions of the detections of r whose text is present and not blank
NonBlankAt(r) ==
  {i \in 1..Len(RespDets(r)) :
     /\ RespDets(r)[i].has
     /\ \E k \in 1..Len(RespDets(r)[i].text) :
          RespDets(r)[i].text[k].s # "<spaces>" /\ RespDets(r)[i].text[k].n > 0}

\* the non-blank detections of r from position i on, in the order of the
\* response, each but the first (sep) preceded by a newline
RECURSIVE JoinedFrom(_, _, _)
JoinedFrom(r, i, sep) ==
  IF i > Len(RespDets(r)) THEN <<>>
  ELSE IF i \in NonBlankAt(r)
       THEN (IF sep THEN <<[s |-> "\\n", off |-> 0, n |-> 1]>> ELSE <<>>)
              \o RespDets(r)[i].text \o JoinedFrom(r, i + 1, TRUE)
       ELSE JoinedFrom(r, i + 1, sep)

\* for every provider response, the text the OCR call is to return
JoinedNonBlank == [r \in OcrResponses |-> JoinedFrom(r, 1, FALSE)]

\* C14: once the provider has answered, the OCR text is the detected texts of
\* the response, absent, empty and whitespace-only entries removed, in the
\* order of the response, joined by newlines; without a detection list, with no
\* detection or with blank detections only it is the empty string, and the
\* OCR call has thrown nothing.
C14_OcrTextIsNonBlankDetectionsInOrder ==
  ocrResp # NoOcr =>
    /\ ocrText = JoinedNonBlank[ocrResp]
    /\ NonBlankAt(ocrResp) = {} => ocrText = <<>>
    /\ LastCall.op = "ocr" => (caught = NoErr /\ outcome = "running")

C14_Witness ==
  /\ ocrResp # NoOcr
  /\ LastCall.op = "ocr"
  /\ Cardinality(NonBlankAt(ocrResp)) = 2
  /\ Len(RespDets(ocrResp)) = 4
  /\ TLen(ocrText) = 12 + 1 + 7

\* the positions of the log holding a call of the given ops
CallsAt(ops) == {i \in 1..Len(calls) : calls[i].op \in ops}

\* the first call of the log is the post of the given acknowledgment text
FirstCallPosts(lit) ==
  /\ calls # <<>>
  /\ calls[1].op = "post"
  /\ calls[1].text # <<>> /\ calls[1].text[1].s = lit

\* C15: the acknowledgment precedes the expensive work. Image path: the
\* processing post is the first call and has returned before the download, an
\* OCR call or the analyze call is issued. Mention path: the Thinking post is
\* issued before the chat call. Slash command: ack() is the first call and has
\* settled before any respond call and before the chat call.
C15_AcknowledgmentFirst ==
  /\ route = "image" =>
       /\ CallsAt({"download", "ocr", "sleep", "analyze"}) # {} =>
            /\ FirstCallPosts("Processing your image with OCR...")
            /\ delivered # <<>> /\ delivered[1] = "img_ack"
       /\ (site = "img_ack" /\ pc \in {"post", "post_fb"}) =>
            CallsAt({"download", "ocr", "sleep", "analyze"}) = {}
  /\ route = "mention" =>
       (CallsAt({"chat"}) # {} =>
          (FirstCallPosts("Thinking...") /\ 1 \notin CallsAt({"chat"})))
  /\ route = "slash" =>
       /\ CallsAt({"respond", "chat"}) # {} => calls[1].op = "ack"
       /\ pc = "ack" => CallsAt({"respond", "chat"}) = {}

C15_Witness ==
  /\ route = "image"
  /\ pc = "analyze" /\ pending
  /\ CallsAt({"download"}) # {} /\ CallsAt({"ocr"}) # {} /\ CallsAt({"analyze"}) # {}
  /\ FirstCallPosts("Processing your image with OCR...")

\* the download answered with a status outside 2xx
DownloadRefused == dlOut # NoDl /\ dlOut.transport /\ ~dlOut.ok

\* C16: an image event makes at most one download call, whatever its outcome
\* (exactly one once the download has settled); when the download answers with
\* a non-2xx status the error raised carries that status, no OCR call and no
\* language-model call is made afterwards, and the error message with the
\* status is what the handler sends to the user.
C16_DownloadOnceAndFatal ==
  /\ Cardinality(CallsAt({"download"})) <= 1
  /\ dlOut # NoDl => Cardinality(CallsAt({"download"})) = 1
  /\ DownloadRefused =>
       /\ caught.isError
       /\ caught.message = <<[s |-> "Failed to download file: ", off |-> 0, n |-> 25],
                             [s |-> dlOut.status, off |-> 0, n |-> 3]>>
       /\ CallsAt({"ocr", "sleep", "analyze", "chat"}) = {}
       /\ site = "img_error"
       /\ args.text = <<[s |-> "Error: ", off |-> 0, n |-> 11]>> \o caught.message
       /\ args.channel = req.channel /\ args.thread_ts = EventTarget
       /\ \A k \in CallsAt({"download"}) : \A i \in (k + 1)..Len(calls) :
            calls[i].op = "post" /\ calls[i].text = args.text
       /\ (pc = "done" /\ outcome = "returned") => delivered = <<"img_ack", "img_error">>

C16_Witness ==
  /\ DownloadRefused
  /\ dlOut.status = "404"
  /\ pc = "done" /\ outcome = "returned"
  /\ delivered = <<"img_ack", "img_error">>

\* call i of the log is the channel fallback of the thread post before it
IsChannelFallback(i) ==
  /\ i > 1
  /\ calls[i].thread_ts = Absent
  /\ calls[i - 1].op = "post"
  /\ calls[i - 1].thread_ts = EventTarget
  /\ calls[i - 1].text = calls[i].text

\* C17: every chat.postMessage call made for one message event
\* (acknowledgment, greeting, no-text notice, result, error message) goes to
\* the event's channel, and to the thread target thread_ts when present, else
\* ts; a post without thread reference is the channel fallback of
\* postThreadOrChannel, made right after the thread post was refused with
\* cannot_reply_to_message.
C17_DeliveriesShareTarget ==
  req.type = "message" =>
    /\ \A i \in CallsAt({"post"}) :
         /\ calls[i].channel = req.channel
         /\ calls[i].thread_ts = EventTarget \/ IsChannelFallback(i)
    /\ pc \in {"post", "post_fb"} =>
         (args.channel = req.channel /\ args.thread_ts = EventTarget)
    /\ pc = "post_fb" => perr.data = "cannot_reply_to_message"

C17_Witness ==
  /\ req.type = "message" /\ req.thread_ts = "90.0"
  /\ site = "img_error" /\ pc = "post_fb" /\ pending
  /\ Cardinality({i \in CallsAt({"post"}) : IsChannelFallback(i)}) >= 2
  /\ Cardinality({i \in CallsAt({"post"}) : calls[i].thread_ts = "90.0"}) >= 3

\* every position of later comes after some position of earlier
Precedes(earlier, later) == \A i \in later : \E j \in earlier : j < i

\* the positions of the log holding a post that is neither the acknowledgment,
\* nor the no-text notice, nor an error message
ResultPostsAt ==
  {i \in CallsAt({"post"}) :
     /\ ~IsErrorText(calls[i].text)
     /\ calls[i].text # <<[s |-> "Processing your image with OCR...", off |-> 0, n |-> 38]>>
     /\ calls[i].text # <<[s |-> "No text detected in the image.", off |-> 0, n |-> 34]>>}

\* C18: within one image event the steps run one after the other, each on the
\* success of the one before: an OCR call is made only after the download
\* returned a 2xx response, the analyze call only after OCR returned a
\* non-empty text (which it is given), the result is delivered only after
\* analyze returned; download and analyze are called at most once; a call is
\* issued only when none is in flight; when OCR returns the empty string the
\* analyze call is never made and the no-text notice is delivered.
C18_ImageStepsInSequence ==
  route = "image" =>
    LET downloads == CallsAt({"download"})
        ocrs == CallsAt({"ocr"})
        analyzes == CallsAt({"analyze"})
        posts == CallsAt({"post"})
    IN /\ ocrs # {} => (dlOut.transport /\ dlOut.ok /\ Precedes(downloads, ocrs))
       /\ analyzes # {} =>
            /\ ocrResp # NoOcr /\ ocrText # <<>>
            /\ Precedes(ocrs, analyzes)
            /\ \A i \in analyzes : calls[i].text = ocrText
       /\ site = "img_result" => llmOut # NoLlm
       /\ LET results == ResultPostsAt
          IN (llmOut = NoLlm => results = {}) /\ Precedes(analyzes, results)
       /\ Cardinality(downloads) <= 1
       /\ Cardinality(analyzes) <= 1
       /\ pending => (calls # <<>> /\ LastCall.op = IF pc = "post_fb" THEN "post" ELSE pc)
       /\ (ocrResp # NoOcr /\ ocrText = <<>>) =>
            /\ analyzes = {}
            /\ \A i \in posts :
                 Precedes(ocrs, {i}) =>
                   \/ IsErrorText(calls[i].text)
                   \/ calls[i].text =
                        <<[s |-> "No text detected in the image.", off |-> 0, n |-> 34]>>
            /\ site \in {"img_notext", "img_error"}

C18_Witness ==
  /\ route = "image"
  /\ pc = "done" /\ outcome = "returned"
  /\ delivered = <<"img_ack", "img_result">>
  /\ Cardinality(CallsAt({"ocr"})) = 2 /\ Cardinality(CallsAt({"sleep"})) = 1
  /\ Cardinality(CallsAt({"download"})) = 1 /\ Cardinality(CallsAt({"analyze"})) = 1
  /\ ResultPostsAt # {}

(* ------------------------------ termination ---------------------------- *)
(* Every awaited call settles, and the continuation of a settled call is   *)
(* run by the event loop: each step that is enabled is eventually taken.   *)
(* The handlers look at the attachment list only through files.find, so    *)
(* the events of this specification carry at most one attachment.          *)

LiveEvents == {e \in Events : ~e.files.isArray \/ Len(e.files.items) <= 1}

LiveReceive == ReceiveFrom(LiveEvents)

LiveNext ==
  \/ LiveReceive
  \/ SlashReceive
  \/ Issue
  \/ PostOk
  \/ PostFail
  \/ PostFbFail
  \/ DownloadDone
  \/ OcrOk
  \/ OcrFail
  \/ SleepDone
  \/ AnalyzeDone
  \/ ChatDone
  \/ AckDone
  \/ RespondOk
  \/ RespondFail

Fairness ==
  /\ WF_vars(Issue)
  /\ WF_vars(PostOk \/ PostFail \/ PostFbFail)
  /\ WF_vars(DownloadDone)
  /\ WF_vars(OcrOk \/ OcrFail)
  /\ WF_vars(SleepDone)
  /\ WF_vars(AnalyzeDone)
  /\ WF_vars(ChatDone)
  /\ WF_vars(AckDone)
  /\ WF_vars(RespondOk \/ RespondFail)

FairSpec == Init /\ [][LiveNext]_vars /\ Fairness

\* C19: when every external call eventually returns or fails, a handler that
\* has started eventually finishes, by returning or by rejecting, and it never
\* makes more calls than two for the acknowledgment, one download, four OCR
\* attempts, three sleeps, one language-model call, two posts of the result
\* and two of the error message.
C19_HandlersFinish ==
  /\ [](Len(calls) <= 2 + 1 + 4 + 3 + 1 + 2 + 2)
  /\ (pc # "idle") ~> (pc = "done")

C19_Witness ==
  /\ pc = "done"
  /\ Cardinality(CallsAt({"sleep"})) = 3
  /\ Len(calls) = 15

(* --------------------------- terminal messages ------------------------- *)

\* the deliveries completed so far that are terminal messages of the given sites
DeliveredOf(sites) == SelectSeq(delivered, LAMBDA s : s \in sites)

\* C20: for one image or mention-chat event at most one terminal message
\* (result, no-text notice, greeting or error message) is successfully
\* delivered besides the acknowledgment; a result or no-text notice and an
\* error message are never both delivered, and nothing is delivered after a
\* terminal message.
C20_AtMostOneTerminalMessage ==
  route \in {"image", "mention"} =>
    /\ Len(DeliveredOf({"img_result", "img_notext", "img_error",
                        "greet", "chat_result", "chat_error"})) <= 1
    /\ Len(DeliveredOf({"img_ack", "think"})) <= 1
    /\ ~(/\ DeliveredOf({"img_result", "img_notext", "chat_result"}) # <<>>
         /\ DeliveredOf({"img_error", "chat_error"}) # <<>>)
    /\ \A i \in 1..Len(delivered) :
         delivered[i] \notin {"img_ack", "think"} => (i = Len(delivered) /\ pc = "done")

C20_Witness ==
  /\ route = "image"
  /\ pc = "done" /\ outcome = "returned"
  /\ delivered = <<"img_ack", "img_error">>
  /\ \E i \in ResultPostsAt : \E j \in CallsAt({"post"}) : j = i + 1 /\ IsChannelFallback(j)

====
